---- MODULE Spec2Model ----
(***************************************************************************)
(* A model of the two download scripts of the repository:                  *)
(*   crawler_caselaw.py        (tree host:   reporters -> .tar archives)   *)
(*   crawler_courtlistener.py  (object store: bucket listing -> .bz2 keys) *)
(* Python strings are sequences of one-character strings, so that          *)
(* endswith, rstrip, split, lower and the <Key> regular expression are     *)
(* computed character by character.  The remote hosts, the user at the     *)
(* prompt and the operating system (write errors, Ctrl-C) are the          *)
(* environment: their answers are drawn with \E in each action.            *)
(***************************************************************************)
EXTENDS Integers, Sequences, FiniteSets, TLC

VARIABLES
  script,            \* which program runs: "caselaw", "courtlistener", or a function harness
  pc,                \* position of the process in main()
  exit_code,         \* status the process ended with ("running" before)
  run,               \* number of the current invocation of the script
  fs,                \* the disk: path |-> Dir or the file's content
  fs0,               \* the disk before the first invocation
  limit_reporters,   \* caselaw: args.limit
  reporters,         \* caselaw: crawl_and_download's reporters list
  idx,               \* caselaw: position of the outer loop
  tar_files,         \* caselaw: tar_files of the current reporter
  tar_idx,           \* caselaw: position of the inner loop
  downloaded_count,  \* caselaw: self.downloaded_count
  failed_count,      \* caselaw: self.failed_count
  skipped_count,     \* caselaw: self.skipped_count
  bz2_files,         \* courtlistener: main's bz2_files
  endpoint,          \* courtlistener: position in get_files_alternative_method's endpoints
  i,                 \* courtlistener: position of the download loop
  successful,        \* courtlistener: main's successful
  failed,            \* courtlistener: main's failed
  answer,            \* courtlistener: the line read by input() (NoLine before the prompt)
  queries,           \* history: discovery strategies queried, with what each returned
  requests,          \* history: number of transfer GETs issued in this invocation
  requested,         \* history: destination paths a transfer GET was issued for, this invocation
  calls,             \* history: number of download_file calls in this invocation
  lastFetch,         \* history: destination and outcome of the latest download_file call
  okPaths,           \* history: destinations whose transfer succeeded, this invocation
  failPaths,         \* history: destinations whose transfer returned False, this invocation
  found,             \* history: destinations of the items discovered so far, in order
  disc,              \* history: per-reporter tar lists of the first invocation (kept when disc.on)
  complete1,         \* history: destinations the first invocation downloaded completely
  inp,               \* function harness: the input
  out                \* function harness: the result

vars == <<script, pc, exit_code, run, fs, fs0, limit_reporters, reporters, idx,
          tar_files, tar_idx, downloaded_count, failed_count, skipped_count,
          bz2_files, endpoint, i, successful, failed, answer, queries,
          requests, requested, calls, lastFetch, okPaths, failPaths, found,
          disc, complete1, inp, out>>

\* Python's None beside an int or a list: a value is None or holds v.
NoneInt == [isNone |-> TRUE, v |-> 0]
SomeInt(n) == [isNone |-> FALSE, v |-> n]
NoneList == [isNone |-> TRUE, v |-> <<>>]
SomeList(l) == [isNone |-> FALSE, v |-> l]

(***************************************************************************)
(* Bounds of the model.                                                    *)
(***************************************************************************)
MaxLinks == 2      \* anchors on the root listing page (pipeline)
MaxArchives == 2   \* anchors on all reporter pages of one invocation together
MaxChunks == 1     \* chunks of a remote file
MaxLimit == 2      \* largest --limit tried
MaxKeys == 2       \* <Key> elements of a bucket listing (pipeline)
MaxAnchors == 3    \* anchors of a root listing (get_reporter_directories harness)
MaxFrags == 4      \* fragments of a bucket listing body (get_s3_bucket_listing harness)

(***************************************************************************)
(* Python string operations on sequences of characters.                    *)
(***************************************************************************)
Last(s) == s[Len(s)]

SeqsUpTo(S, n) == UNION {[1..k -> S] : k \in 0..n}

Range(s) == {s[k] : k \in DOMAIN s}

\* str.endswith(suffix)
EndsWith(s, suf) ==
  /\ Len(s) >= Len(suf)
  /\ SubSeq(s, Len(s) - Len(suf) + 1, Len(s)) = suf

\* whether pat occurs in s at position p
StartsAt(s, p, pat) ==
  /\ p + Len(pat) - 1 <= Len(s)
  /\ SubSeq(s, p, p + Len(pat) - 1) = pat

\* str.rstrip('/') : every trailing '/' is removed
RECURSIVE RStripSlash(_)
RStripSlash(s) ==
  IF s # <<>> /\ Last(s) = "/" THEN RStripSlash(SubSeq(s, 1, Len(s) - 1)) ELSE s

\* str.split('/') : the segments between the separators, empty ones included
RECURSIVE SplitSlash(_)
SplitSlash(s) ==
  LET cut == {k \in DOMAIN s : s[k] = "/"}
  IN IF cut = {} THEN <<s>>
     ELSE LET k == CHOOSE x \in cut : \A y \in cut : x <= y
          IN <<SubSeq(s, 1, k - 1)>> \o SplitSlash(SubSeq(s, k + 1, Len(s)))

\* str.lower() on the characters the prompt's answers use
LowerChar(c) ==
  CASE c = "Y" -> "y"
    [] c = "N" -> "n"
    [] c = "E" -> "e"
    [] c = "S" -> "s"
    [] OTHER -> c

Lower(s) == [k \in DOMAIN s |-> LowerChar(s[k])]

RECURSIVE Flatten(_)
Flatten(ss) == IF ss = <<>> THEN <<>> ELSE ss[1] \o Flatten(Tail(ss))

TarExt == <<".", "t", "a", "r">>
JsonExt == <<".", "j", "s", "o", "n">>
Bz2Ext == <<".", "b", "z", "2">>
KeyOpen == <<"<", "K", "e", "y", ">">>
KeyClose == <<"<", "/", "K", "e", "y", ">">>

(***************************************************************************)
(* The environment of the caselaw script: the pages the tree host serves   *)
(* (links are given as get_page_links sees them after urljoin, that is as  *)
(* absolute URLs) and the disk.                                            *)
(***************************************************************************)
\* "https://static.case.law/", host name shortened
base_url == <<"h", ":", "/", "/", "s", "/">>
\* "-o caselaw_downloads", and courtlistener's fixed directory
output_dir == <<"caselaw_downloads">>
cl_output_dir == <<"courtlistener_downloads">>

U_a == base_url \o <<"a", "/">>
U_b == base_url \o <<"b", "/">>
U_aa == base_url \o <<"a", "/", "/">>
U_file == base_url \o <<"a">>
U_meta == base_url \o <<"m">> \o JsonExt
U_metadir == base_url \o <<"m">> \o JsonExt \o <<"/">>
U_other == <<"h", ":", "/", "/", "d", "/">>
T_1 == U_a \o <<"1">> \o TarExt
T_2 == U_a \o <<"2">> \o TarExt

RootLinkPool == {base_url, U_a, U_b}
TarLinkPool == {T_1, T_2, U_a}
AnchorPool == {base_url, U_a, U_b, U_aa, U_file, U_meta, U_metadir, U_other}

\* A response to session.get: the request raised (exc), or a status and the
\* page's anchors.
ConnError == [exc |-> TRUE, status |-> 0, links |-> <<>>]
PageResponses(pool, n) ==
  {ConnError}
    \cup {[exc |-> FALSE, status |-> 404, links |-> <<>>]}
    \cup {[exc |-> FALSE, status |-> 200, links |-> l] : l \in SeqsUpTo(pool, n)}

\* Contents of the disk: directories, and files holding the first `chunks`
\* chunks of the resource at `url`.
Dir == [kind |-> "dir", url |-> <<>>, chunks |-> 0]
File(url, k) == [kind |-> "file", url |-> url, chunks |-> k]
EmptyDisk == <<>>
OldFile == File(<<"o", "l", "d">>, 0)

\* os.path.join(dir, name)
os_path_join(dir, name) == Append(dir, name)

\* os.path.exists with the check lost: nothing is ever found on the disk
NeverExists(disk, path) == FALSE

\* os.path.exists(path)
os_path_exists(disk, path) == path \in DOMAIN disk

\* the disk with `path` holding `content`
WriteDisk(disk, path, content) ==
  [p \in DOMAIN disk \cup {path} |-> IF p = path THEN content ELSE disk[p]]

\* os.remove(path)
os_remove(disk, path) == [p \in DOMAIN disk \ {path} |-> disk[p]]

\* Path(dir).mkdir(parents=True, exist_ok=True)
RECURSIVE Mkdir(_, _)
Mkdir(disk, dir) ==
  IF dir = <<>> \/ os_path_exists(disk, dir) THEN disk
  ELSE WriteDisk(Mkdir(disk, SubSeq(dir, 1, Len(dir) - 1)), dir, Dir)

TreeDisks ==
  {EmptyDisk,
   WriteDisk(Mkdir(EmptyDisk, os_path_join(output_dir, <<"a">>)),
             os_path_join(os_path_join(output_dir, <<"a">>), <<"1">> \o TarExt),
             OldFile)}

(***************************************************************************)
(* crawler_caselaw.py                                                      *)
(***************************************************************************)
\* response.raise_for_status() raises
raise_for_status(status) == status >= 400 /\ status < 600

\* CaseLawCrawler.get_page_links
get_page_links(resp) ==
  IF resp.exc \/ raise_for_status(resp.status) THEN <<>> ELSE resp.links

\* reporter_name = link.rstrip('/').split('/')[-1]
ReporterName(link) == Last(SplitSlash(RStripSlash(link)))

\* the filter without the exclusion of names ending in '.json'
IsDirectoryLink(link) ==
  /\ EndsWith(link, <<"/">>)
  /\ link # base_url
  /\ ReporterName(link) # <<>>

\* the filter of get_reporter_directories' loop
IsReporterLink(link) ==
  /\ EndsWith(link, <<"/">>)
  /\ link # base_url
  /\ ReporterName(link) # <<>>
  /\ ~EndsWith(ReporterName(link), JsonExt)

\* CaseLawCrawler.get_reporter_directories
get_reporter_directories(resp) ==
  LET kept == SelectSeq(get_page_links(resp), IsReporterLink)
  IN [k \in DOMAIN kept |-> <<ReporterName(kept[k]), kept[k]>>]

\* CaseLawCrawler.get_tar_files
IsTarLink(link) == EndsWith(link, TarExt)
get_tar_files(resp) == SelectSeq(get_page_links(resp), IsTarLink)

\* Python's truth value of an int-or-None and of a list-or-None
TruthyInt(x) == ~x.isNone /\ x.v # 0
TruthyList(x) == ~x.isNone /\ x.v # <<>>

\* Python's s[:n]
Slice(s, n) ==
  IF n >= 0 THEN SubSeq(s, 1, IF n < Len(s) THEN n ELSE Len(s))
  ELSE SubSeq(s, 1, IF Len(s) + n > 0 THEN Len(s) + n ELSE 0)

\* "if limit_reporters: reporters = reporters[:limit_reporters]"
LimitReporters(reps, limit) ==
  IF TruthyInt(limit) THEN Slice(reps, limit.v) ELSE reps

\* filename = tar_url.split('/')[-1]; os.path.basename(filename)
Basename(url) == Last(SplitSlash(url))

reporter_dir == os_path_join(output_dir, reporters[idx][1])
tar_url == tar_files[tar_idx]
output_path == os_path_join(reporter_dir, Basename(tar_url))

\* the except clause without the removal
KeepPartial(disk, path) == disk

\* the except clause of download_file: "if os.path.exists(p): os.remove(p)"
RemovePartial(disk, path) ==
  IF os_path_exists(disk, path) THEN os_remove(disk, path) ELSE disk

\* What the transfer of one file can meet.  "ok": n chunks arrive and are written.
\* "http_error": the GET raises or raise_for_status does (RequestException before
\* open).  "stream_error": iter_content raises a RequestException after k chunks.
\* "write_error": f.write raises OSError after k chunks.  "interrupt":
\* KeyboardInterrupt after k chunks.
Returning == {"ok", "http_error", "stream_error"}
Raising == {"write_error", "interrupt"}

\* CaseLawCrawler.download_file and the try block of courtlistener's
\* download_file: the disk afterwards, and True, False or the exception raised.
download_file(disk, url, path, outcome, k) ==
  CASE outcome = "ok" ->
         [fs |-> WriteDisk(disk, path, File(url, k)), ret |-> "True"]
    [] outcome = "http_error" ->
         [fs |-> RemovePartial(disk, path), ret |-> "False"]
    [] outcome = "stream_error" ->
         [fs |-> RemovePartial(WriteDisk(disk, path, File(url, k)), path),
          ret |-> "False"]
    [] outcome = "write_error" ->
         [fs |-> WriteDisk(disk, path, File(url, k)), ret |-> "OSError"]
    [] outcome = "interrupt" ->
         [fs |-> WriteDisk(disk, path, File(url, k)), ret |-> "KeyboardInterrupt"]

\* chunks written when the transfer ends with `outcome`: a remote file has
\* MaxChunks chunks, a transfer that ends early has written fewer
ChunksAt(outcome) == IF outcome = "ok" THEN {MaxChunks} ELSE 0..(MaxChunks - 1)

(***************************************************************************)
(* State shared by the two scripts' models.                                *)
(***************************************************************************)
NoLine == <<"(nothing read)">>
EOF == <<"(end of input)">>
NoFetch == [path |-> <<>>, outcome |-> "none", ret |-> "none"]
NoDisc(on) == [on |-> on, reporters |-> NoneList, tars |-> <<>>, queries |-> <<>>]

\* the variables of the script that is not running, and of the harnesses
CaselawIdle ==
  /\ limit_reporters = NoneInt /\ reporters = <<>> /\ idx = 0
  /\ tar_files = <<>> /\ tar_idx = 0
  /\ downloaded_count = 0 /\ failed_count = 0 /\ skipped_count = 0

CourtlistenerIdle ==
  /\ bz2_files = NoneList /\ endpoint = 0 /\ i = 0
  /\ successful = 0 /\ failed = 0 /\ answer = NoLine /\ queries = <<>>

HistoryInit(keep) ==
  /\ requests = 0 /\ requested = {} /\ calls = 0 /\ lastFetch = NoFetch
  /\ okPaths = {} /\ failPaths = {} /\ found = <<>>
  /\ disc = NoDisc(keep) /\ complete1 = {}

HarnessIdle == inp = <<>> /\ out = <<>>

caselawVars == <<limit_reporters, reporters, idx, tar_files, tar_idx,
                 downloaded_count, failed_count, skipped_count>>
courtlistenerVars == <<bz2_files, endpoint, i, successful, failed, answer, queries>>
harnessVars == <<inp, out>>

(***************************************************************************)
(* crawler_caselaw.py: main and crawl_and_download                         *)
(***************************************************************************)
\* main: argparse, CaseLawCrawler.__init__
InitCaselaw(keep) ==
  /\ script = "caselaw" /\ pc = "start" /\ exit_code = "running" /\ run = 1
  /\ fs0 \in TreeDisks /\ fs = fs0
  /\ limit_reporters \in {NoneInt} \cup {SomeInt(n) : n \in (-1)..MaxLimit}
  /\ reporters = <<>> /\ idx = 0 /\ tar_files = <<>> /\ tar_idx = 0
  /\ downloaded_count = 0 /\ failed_count = 0 /\ skipped_count = 0
  /\ CourtlistenerIdle /\ HistoryInit(keep) /\ HarnessIdle

\* crawl_and_download, lines 118-130: discover the reporters, apply the limit
Discover ==
  /\ script = "caselaw" /\ pc = "start"
  /\ \E resp \in PageResponses(RootLinkPool, MaxLinks) :
       LET all == get_reporter_directories(resp)
       IN /\ run > 1 => all = disc.reporters.v
          /\ disc' = IF disc.on /\ run = 1
                     THEN [disc EXCEPT !.reporters = SomeList(all)] ELSE disc
          /\ IF all = <<>>
             THEN /\ pc' = "returned" /\ exit_code' = "0"
                  /\ UNCHANGED <<reporters, idx>>
             ELSE /\ reporters' = LimitReporters(all, limit_reporters)
                  /\ idx' = 1 /\ pc' = "reporters"
                  /\ UNCHANGED exit_code
  /\ UNCHANGED <<script, run, fs, fs0, limit_reporters, tar_files, tar_idx,
                 downloaded_count, failed_count, skipped_count,
                 courtlistenerVars, requests, requested, calls, lastFetch,
                 okPaths, failPaths, found, complete1, harnessVars>>

\* destinations of a reporter's tar list
DestinationsOf(dir, tars) == [k \in DOMAIN tars |-> os_path_join(dir, Basename(tars[k]))]

\* one pass of the outer loop up to the inner loop, lines 133-147
ProcessReporter ==
  /\ script = "caselaw" /\ pc = "reporters" /\ idx <= Len(reporters)
  /\ \E resp \in PageResponses(TarLinkPool, MaxArchives) :
       LET tars == get_tar_files(resp)
       IN /\ Len(found) + Len(tars) <= MaxArchives
          /\ run > 1 /\ idx <= Len(disc.tars) => tars = disc.tars[idx]
          /\ disc' = IF disc.on /\ run = 1
                     THEN [disc EXCEPT !.tars = Append(@, tars)] ELSE disc
          /\ found' = found \o DestinationsOf(reporter_dir, tars)
          /\ IF tars = <<>>
             THEN /\ idx' = idx + 1
                  /\ UNCHANGED <<pc, tar_files, tar_idx>>
             ELSE /\ tar_files' = tars /\ tar_idx' = 1 /\ pc' = "files"
                  /\ UNCHANGED idx
  /\ fs' = Mkdir(fs, reporter_dir)
  /\ UNCHANGED <<script, exit_code, run, fs0, limit_reporters, reporters,
                 downloaded_count, failed_count, skipped_count,
                 courtlistenerVars, requests, requested, calls, lastFetch,
                 okPaths, failPaths, complete1, harnessVars>>

\* the end of one pass of the inner loop: the next tar file, or the next reporter
NextItem ==
  IF tar_idx < Len(tar_files)
  THEN /\ tar_idx' = tar_idx + 1
       /\ UNCHANGED <<pc, idx, tar_files>>
  ELSE /\ pc' = "reporters" /\ idx' = idx + 1
       /\ tar_files' = <<>> /\ tar_idx' = 0

\* lines 154-158: the destination exists, the item is skipped
SkipItem ==
  /\ script = "caselaw" /\ pc = "files"
  /\ os_path_exists(fs, output_path)
  /\ skipped_count' = skipped_count + 1
  /\ NextItem
  /\ UNCHANGED <<script, exit_code, run, fs, fs0, limit_reporters, reporters,
                 downloaded_count, failed_count, courtlistenerVars, requests,
                 requested, calls, lastFetch, okPaths, failPaths, found, disc,
                 complete1, harnessVars>>

\* lines 160-170: download_file returns True or False and is counted
DownloadItem ==
  /\ script = "caselaw" /\ pc = "files"
  /\ ~os_path_exists(fs, output_path)
  /\ \E outcome \in Returning :
     \E k \in ChunksAt(outcome) :
       LET r == download_file(fs, tar_url, output_path, outcome, k)
       IN /\ fs' = r.fs
          /\ lastFetch' = [path |-> output_path, outcome |-> outcome, ret |-> r.ret]
          /\ IF r.ret = "True"
             THEN /\ downloaded_count' = downloaded_count + 1
                  /\ okPaths' = okPaths \cup {output_path}
                  /\ UNCHANGED <<failed_count, failPaths>>
             ELSE /\ failed_count' = failed_count + 1
                  /\ failPaths' = failPaths \cup {output_path}
                  /\ UNCHANGED <<downloaded_count, okPaths>>
  /\ requests' = requests + 1
  /\ requested' = requested \cup {output_path}
  /\ calls' = calls + 1
  /\ NextItem
  /\ UNCHANGED <<script, exit_code, run, fs0, limit_reporters, reporters,
                 skipped_count, courtlistenerVars, found, disc, complete1,
                 harnessVars>>

\* download_file raises what its except clause does not catch: OSError leaves
\* main with a traceback, KeyboardInterrupt reaches main's handler (sys.exit(0))
DownloadRaises ==
  /\ script = "caselaw" /\ pc = "files"
  /\ ~os_path_exists(fs, output_path)
  /\ \E outcome \in Raising :
     \E k \in ChunksAt(outcome) :
       LET r == download_file(fs, tar_url, output_path, outcome, k)
       IN /\ fs' = r.fs
          /\ lastFetch' = [path |-> output_path, outcome |-> outcome, ret |-> r.ret]
          /\ IF r.ret = "OSError"
             THEN pc' = "crashed" /\ exit_code' = "1"
             ELSE pc' = "exited" /\ exit_code' = "0"
  /\ requests' = requests + 1
  /\ requested' = requested \cup {output_path}
  /\ calls' = calls + 1
  /\ UNCHANGED <<script, run, fs0, caselawVars, courtlistenerVars, okPaths,
                 failPaths, found, disc, complete1, harnessVars>>

\* lines 174-182: the final summary
Summary ==
  /\ script = "caselaw" /\ pc = "reporters" /\ idx > Len(reporters)
  /\ pc' = "done" /\ exit_code' = "0"
  /\ UNCHANGED <<script, run, fs, fs0, caselawVars, courtlistenerVars,
                 requests, requested, calls, lastFetch, okPaths, failPaths,
                 found, disc, complete1, harnessVars>>

NextCaselaw ==
  \/ Discover
  \/ ProcessReporter
  \/ SkipItem
  \/ DownloadItem
  \/ DownloadRaises
  \/ Summary

(***************************************************************************)
(* crawler_courtlistener.py: the listing functions                         *)
(***************************************************************************)
\* the end of the run of characters other than '<' that starts at p
RunEnd(text, p) ==
  LET stops == {k \in p..Len(text) : text[k] = "<"}
  IN IF stops = {} THEN Len(text) + 1
     ELSE CHOOSE x \in stops : \A y \in stops : x <= y

\* re.findall(r'<Key>([^<]+)</Key>', text), scanning from position p: at a match
\* the group is kept and the scan goes on after the match, otherwise one
\* character further
RECURSIVE FindKeysFrom(_, _)
FindKeysFrom(text, p) ==
  IF p > Len(text) THEN <<>>
  ELSE IF StartsAt(text, p, KeyOpen)
            /\ RunEnd(text, p + Len(KeyOpen)) > p + Len(KeyOpen)
            /\ StartsAt(text, RunEnd(text, p + Len(KeyOpen)), KeyClose)
       THEN LET e == RunEnd(text, p + Len(KeyOpen))
            IN <<SubSeq(text, p + Len(KeyOpen), e - 1)>>
                 \o FindKeysFrom(text, e + Len(KeyClose))
       ELSE FindKeysFrom(text, p + 1)

FindKeys(text) == FindKeysFrom(text, 1)

\* the keys without the filter
AllKeys(keys) == keys

\* [key for key in keys if key.endswith('.bz2')]
IsBz2(key) == EndsWith(key, Bz2Ext)

Bz2Only(keys) == SelectSeq(keys, IsBz2)

\* get_s3_bucket_listing: None on a RequestException, else the .bz2 keys
get_s3_bucket_listing(resp) ==
  IF resp.exc \/ raise_for_status(resp.status) THEN NoneList
  ELSE SomeList(Bz2Only(FindKeys(resp.text)))

\* get_files_from_html_listing: the page must load and name the bucket
get_files_from_html_listing(html, s3) ==
  IF html.exc \/ raise_for_status(html.status) THEN NoneList
  ELSE IF html.bucket THEN get_s3_bucket_listing(s3)
  ELSE NoneList

\* one pass of get_files_alternative_method's loop: the .bz2 keys of a 200
\* response; an exception or another status gives nothing
EndpointKeys(resp) ==
  IF ~resp.exc /\ resp.status = 200 THEN SomeList(Bz2Only(FindKeys(resp.text)))
  ELSE NoneList

\* the loop without its early return
NeverReturns(got) == FALSE

\* "if bz2_files: return bz2_files" inside the loop
EndpointReturns(got) == TruthyList(got)

\* "if not bz2_files:" before methods 2 and 3 and before sys.exit(1)
NotFound(files) == ~TruthyList(files)

\* the comparison on the first character only
DeclinesUnlessStartsWithY(response) ==
  ~(Lower(response) # <<>> /\ Lower(response)[1] = "y")

\* "if response.lower() != 'y'"
Declines(response) == Lower(response) # <<"y">>

(***************************************************************************)
(* The environment of the courtlistener script.                            *)
(***************************************************************************)
s3_base_url == <<"h", ":", "/", "/", "b", "/">>
K_1 == <<"d", "/", "a">> \o Bz2Ext
K_2 == <<"e", "/", "a">> \o Bz2Ext
K_3 == <<"d", "/", "a", ".", "g", "z">>
KeyPool == {K_1, K_2, K_3}

\* a bucket listing with the given keys
KeyElement(key) == KeyOpen \o key \o KeyClose
BodyOf(keys) == Flatten([k \in DOMAIN keys |-> KeyElement(keys[k])])

BucketError == [exc |-> TRUE, status |-> 0, text |-> <<>>]
BucketResponses ==
  {BucketError}
    \cup {[exc |-> FALSE, status |-> 404, text |-> <<>>]}
    \cup {[exc |-> FALSE, status |-> st, text |-> BodyOf(ks)] :
            st \in {200, 206}, ks \in SeqsUpTo(KeyPool, MaxKeys)}

HtmlResponses ==
  {[exc |-> TRUE, status |-> 0, bucket |-> FALSE]}
    \cup {[exc |-> FALSE, status |-> st, bucket |-> b] :
            st \in {200, 404}, b \in BOOLEAN}

Answers == {<<"y">>, <<"Y">>, <<"n">>, <<"y", "e", "s">>, <<" ", "y">>, <<>>, EOF}

CourtDisks ==
  {EmptyDisk,
   WriteDisk(Mkdir(EmptyDisk, cl_output_dir),
             os_path_join(cl_output_dir, <<"a">> \o Bz2Ext), OldFile)}

(***************************************************************************)
(* crawler_courtlistener.py: main and download_file                        *)
(***************************************************************************)
InitCourtlistener(keep) ==
  /\ script = "courtlistener" /\ pc = "method1" /\ exit_code = "running" /\ run = 1
  /\ fs0 \in CourtDisks /\ fs = fs0
  /\ CaselawIdle /\ CourtlistenerIdle /\ HistoryInit(keep) /\ HarnessIdle

\* a discovery strategy was queried and returned `got`; a later invocation
\* meets what the first one met
Queried(ep, got) ==
  LET entry == [ep |-> ep, got |-> got]
  IN /\ run > 1 /\ Len(queries) < Len(disc.queries)
          => entry = disc.queries[Len(queries) + 1]
     /\ queries' = Append(queries, entry)

courtMain == <<script, exit_code, run, fs, fs0, caselawVars, i, successful,
               failed, answer, requests, requested, calls, lastFetch, okPaths,
               failPaths, found, disc, complete1, harnessVars>>

\* main, lines 153-162: the output directory, then method 1
Method1 ==
  /\ script = "courtlistener" /\ pc = "method1"
  /\ \E html \in HtmlResponses, s3 \in BucketResponses :
       LET got == get_files_from_html_listing(html, s3)
       IN /\ Queried("html", got)
          /\ bz2_files' = got
          /\ IF NotFound(got)
             THEN pc' = "method2" /\ endpoint' = 1
             ELSE pc' = "check" /\ UNCHANGED endpoint
  /\ fs' = Mkdir(fs, cl_output_dir)
  /\ UNCHANGED <<script, exit_code, run, fs0, caselawVars, i, successful,
                 failed, answer, requests, requested, calls, lastFetch,
                 okPaths, failPaths, found, disc, complete1, harnessVars>>

\* the endpoints of get_files_alternative_method, in list order
EndpointName(n) == CASE n = 1 -> "alt1" [] n = 2 -> "alt2" [] OTHER -> "alt3"
NumEndpoints == 3

\* main, lines 165-166: one pass of get_files_alternative_method's loop; the
\* function returns the keys of the first endpoint that has some, or None
\* after the last endpoint, and main goes on to method 3 or to the check
TryEndpoint ==
  /\ script = "courtlistener" /\ pc = "method2"
  /\ \E resp \in BucketResponses :
       LET got == EndpointKeys(resp)
       IN /\ Queried(EndpointName(endpoint), got)
          /\ IF EndpointReturns(got)
             THEN /\ bz2_files' = got
                  /\ pc' = IF NotFound(got) THEN "method3" ELSE "check"
                  /\ endpoint' = 0
             ELSE IF endpoint < NumEndpoints
             THEN /\ endpoint' = endpoint + 1
                  /\ UNCHANGED <<pc, bz2_files>>
             ELSE /\ bz2_files' = NoneList
                  /\ pc' = IF NotFound(NoneList) THEN "method3" ELSE "check"
                  /\ endpoint' = 0
  /\ UNCHANGED courtMain

\* main, lines 169-171: method 3
Method3 ==
  /\ script = "courtlistener" /\ pc = "method3"
  /\ \E resp \in BucketResponses :
       LET got == get_s3_bucket_listing(resp)
       IN /\ Queried("base", got)
          /\ bz2_files' = got
  /\ pc' = "check"
  /\ UNCHANGED endpoint
  /\ UNCHANGED courtMain

\* main, lines 173-188: nothing was discovered, sys.exit(1)
DiscoveryFailed ==
  /\ script = "courtlistener" /\ pc = "check"
  /\ NotFound(bz2_files)
  /\ pc' = "exited" /\ exit_code' = "1"
  /\ UNCHANGED <<script, run, fs, fs0, caselawVars, courtlistenerVars,
                 requests, requested, calls, lastFetch, okPaths, failPaths,
                 found, disc, complete1, harnessVars>>

\* main, lines 190-209: the files are shown and the user is asked; input()
\* raises EOFError at the end of standard input
Prompt ==
  /\ script = "courtlistener" /\ pc = "check"
  /\ ~NotFound(bz2_files)
  /\ \E response \in Answers :
       /\ answer' = response
       /\ IF response = EOF
          THEN pc' = "crashed" /\ exit_code' = "1" /\ UNCHANGED i
          ELSE IF Declines(response)
          THEN pc' = "exited" /\ exit_code' = "0" /\ UNCHANGED i
          ELSE pc' = "download" /\ i' = 1 /\ UNCHANGED exit_code
  /\ found' = DestinationsOf(cl_output_dir, bz2_files.v)
  /\ UNCHANGED <<script, run, fs, fs0, caselawVars, bz2_files, endpoint,
                 successful, failed, queries, requests, requested, calls,
                 lastFetch, okPaths, failPaths, disc, complete1, harnessVars>>

filename == bz2_files.v[i]
url == s3_base_url \o filename
filepath == os_path_join(cl_output_dir, Basename(filename))

\* download_file, lines 110-113, and main's count: the file exists
FetchExisting ==
  /\ script = "courtlistener" /\ pc = "download" /\ i <= Len(bz2_files.v)
  /\ os_path_exists(fs, filepath)
  /\ successful' = successful + 1
  /\ i' = i + 1
  /\ calls' = calls + 1
  /\ UNCHANGED <<script, pc, exit_code, run, fs, fs0, caselawVars, bz2_files,
                 endpoint, failed, answer, queries, requests, requested,
                 lastFetch, okPaths, failPaths, found, disc, complete1,
                 harnessVars>>

\* download_file, lines 115-144, and main's count: True or False
FetchKey ==
  /\ script = "courtlistener" /\ pc = "download" /\ i <= Len(bz2_files.v)
  /\ ~os_path_exists(fs, filepath)
  /\ \E outcome \in Returning :
     \E k \in ChunksAt(outcome) :
       LET r == download_file(fs, url, filepath, outcome, k)
       IN /\ fs' = r.fs
          /\ lastFetch' = [path |-> filepath, outcome |-> outcome, ret |-> r.ret]
          /\ IF r.ret = "True"
             THEN /\ successful' = successful + 1
                  /\ okPaths' = okPaths \cup {filepath}
                  /\ UNCHANGED <<failed, failPaths>>
             ELSE /\ failed' = failed + 1
                  /\ failPaths' = failPaths \cup {filepath}
                  /\ UNCHANGED <<successful, okPaths>>
  /\ i' = i + 1
  /\ requests' = requests + 1
  /\ requested' = requested \cup {filepath}
  /\ calls' = calls + 1
  /\ UNCHANGED <<script, pc, exit_code, run, fs0, caselawVars, bz2_files,
                 endpoint, answer, queries, found, disc, complete1, harnessVars>>

\* download_file raises what its except clause does not catch; main has no
\* handler, the process ends with a traceback
FetchRaises ==
  /\ script = "courtlistener" /\ pc = "download" /\ i <= Len(bz2_files.v)
  /\ ~os_path_exists(fs, filepath)
  /\ \E outcome \in Raising :
     \E k \in ChunksAt(outcome) :
       LET r == download_file(fs, url, filepath, outcome, k)
       IN /\ fs' = r.fs
          /\ lastFetch' = [path |-> filepath, outcome |-> outcome, ret |-> r.ret]
          /\ exit_code' = IF r.ret = "OSError" THEN "1" ELSE "130"
  /\ pc' = "crashed"
  /\ requests' = requests + 1
  /\ requested' = requested \cup {filepath}
  /\ calls' = calls + 1
  /\ UNCHANGED <<script, run, fs0, caselawVars, courtlistenerVars, okPaths,
                 failPaths, found, disc, complete1, harnessVars>>

\* main, lines 218-224: the summary
CourtSummary ==
  /\ script = "courtlistener" /\ pc = "download" /\ i > Len(bz2_files.v)
  /\ pc' = "done" /\ exit_code' = "0"
  /\ UNCHANGED <<script, run, fs, fs0, caselawVars, courtlistenerVars,
                 requests, requested, calls, lastFetch, okPaths, failPaths,
                 found, disc, complete1, harnessVars>>

NextCourtlistener ==
  \/ Method1
  \/ TryEndpoint
  \/ Method3
  \/ DiscoveryFailed
  \/ Prompt
  \/ FetchExisting
  \/ FetchKey
  \/ FetchRaises
  \/ CourtSummary

(***************************************************************************)
(* One run of either script.                                               *)
(***************************************************************************)
Init == InitCaselaw(FALSE) \/ InitCourtlistener(FALSE)

Next == NextCaselaw \/ NextCourtlistener

Spec == Init /\ [][Next]_vars

(***************************************************************************)
(* The script is run, and run once more after it ended in whatever way:    *)
(* the disk is what the first invocation left, the process starts afresh   *)
(* and the hosts answer as they did.                                       *)
(***************************************************************************)
Ended == pc \in {"done", "returned", "exited", "crashed"}

Rerun ==
  /\ Ended /\ run = 1
  /\ run' = 2
  /\ pc' = IF script = "caselaw" THEN "start" ELSE "method1"
  /\ exit_code' = "running"
  /\ complete1' = okPaths
  /\ disc' = [disc EXCEPT !.queries = queries]
  /\ reporters' = <<>> /\ idx' = 0 /\ tar_files' = <<>> /\ tar_idx' = 0
  /\ downloaded_count' = 0 /\ failed_count' = 0 /\ skipped_count' = 0
  /\ bz2_files' = NoneList /\ endpoint' = 0 /\ i' = 0
  /\ successful' = 0 /\ failed' = 0 /\ answer' = NoLine /\ queries' = <<>>
  /\ requests' = 0 /\ requested' = {} /\ calls' = 0 /\ lastFetch' = NoFetch
  /\ okPaths' = {} /\ failPaths' = {} /\ found' = <<>>
  /\ UNCHANGED <<script, fs, fs0, limit_reporters, harnessVars>>

InitResume == InitCaselaw(TRUE) \/ InitCourtlistener(TRUE)

NextResume == Next \/ Rerun

SpecResume == InitResume /\ [][NextResume]_vars

(***************************************************************************)
(* The listing functions alone, on every listing within the bounds.        *)
(***************************************************************************)
InitReporters ==
  /\ script = "get_reporter_directories" /\ pc = "call"
  /\ inp \in PageResponses(AnchorPool, MaxAnchors) /\ out = <<>>
  /\ exit_code = "running" /\ run = 1 /\ fs0 = EmptyDisk /\ fs = fs0
  /\ CaselawIdle /\ CourtlistenerIdle /\ HistoryInit(FALSE)

CallReporters ==
  /\ script = "get_reporter_directories" /\ pc = "call"
  /\ out' = get_reporter_directories(inp)
  /\ pc' = "returned"
  /\ UNCHANGED <<script, exit_code, run, fs, fs0, caselawVars,
                 courtlistenerVars, requests, requested, calls, lastFetch,
                 okPaths, failPaths, found, disc, complete1, inp>>

SpecReporters == InitReporters /\ [][CallReporters]_vars

\* pieces a bucket listing's body is put together from
E_bz2 == KeyElement(<<"a">> \o Bz2Ext)
E_other == KeyElement(<<"a">>)
FragPool == {E_bz2, E_other, KeyOpen, KeyClose, <<"b">> \o Bz2Ext, <<"<">>}

ListingResponses ==
  {BucketError}
    \cup {[exc |-> FALSE, status |-> st, text |-> Flatten(fr)] :
            st \in {200, 404}, fr \in SeqsUpTo(FragPool, MaxFrags)}

InitKeys ==
  /\ script = "get_s3_bucket_listing" /\ pc = "call"
  /\ inp \in ListingResponses /\ out = NoneList
  /\ exit_code = "running" /\ run = 1 /\ fs0 = EmptyDisk /\ fs = fs0
  /\ CaselawIdle /\ CourtlistenerIdle /\ HistoryInit(FALSE)

CallListing ==
  /\ script = "get_s3_bucket_listing" /\ pc = "call"
  /\ out' = get_s3_bucket_listing(inp)
  /\ pc' = "returned"
  /\ UNCHANGED <<script, exit_code, run, fs, fs0, caselawVars,
                 courtlistenerVars, requests, requested, calls, lastFetch,
                 okPaths, failPaths, found, disc, complete1, inp>>

SpecKeys == InitKeys /\ [][CallListing]_vars

(***************************************************************************)
(* The claims.                                                             *)
(***************************************************************************)
IsInjective(s) == \A a, b \in DOMAIN s : a # b => s[a] # s[b]

\* the orchestration loop has reached an item whose destination exists
ReachedExisting ==
  \/ /\ script = "caselaw" /\ pc = "files"
     /\ output_path \in DOMAIN fs
  \/ /\ script = "courtlistener" /\ pc = "download" /\ i <= Len(bz2_files.v)
     /\ filepath \in DOMAIN fs

\* C1: in both scripts, when the loop reaches an item whose destination path
\* exists, the step that handles the item issues no transfer request and
\* leaves the disk (so the destination's content) as it was; this covers an
\* item whose destination was written by an earlier item of the same run.
C1_ExistingDestinationUntouched ==
  [][ReachedExisting => (fs' = fs /\ requests' = requests)]_vars

\* a run that started on an empty disk has downloaded an item and later skipped
\* an item with the same destination
C1_SkippedAfterDownload ==
  /\ script = "caselaw" /\ fs0 = EmptyDisk /\ pc = "done"
  /\ downloaded_count = 1 /\ skipped_count = 1
  /\ found[1] = found[2] /\ found[1] \in okPaths

\* C2: after a download_file call that did not succeed (it returned False, or
\* ended with a write error or an interruption), nothing is left at the
\* destination path.
C2_NoPartialFileAfterFailure ==
  lastFetch.ret \in {"False", "OSError", "KeyboardInterrupt"}
    => lastFetch.path \notin DOMAIN fs

\* the fixed order of the discovery strategies and endpoints
DiscoveryOrder == <<"html", "alt1", "alt2", "alt3", "base">>
Discovering == pc \in {"method1", "method2", "method3"}

\* C3: the strategies are queried in the fixed order, nothing is queried after
\* the first one that returns a non-empty key list, and once discovery is over
\* bz2_files is that list (or, when none returned any key, every strategy was
\* queried and bz2_files is empty or None).
C3_FirstNonEmptyWins ==
  script = "courtlistener" =>
    /\ Len(queries) <= Len(DiscoveryOrder)
    /\ \A n \in DOMAIN queries : queries[n].ep = DiscoveryOrder[n]
    /\ \A n \in DOMAIN queries : TruthyList(queries[n].got) => n = Len(queries)
    /\ ~Discovering =>
         IF \E n \in DOMAIN queries : TruthyList(queries[n].got)
         THEN bz2_files = Last(queries).got
         ELSE /\ Len(queries) = Len(DiscoveryOrder)
              /\ (bz2_files.isNone \/ bz2_files.v = <<>>)

\* strategy 1 returned an empty list, the first alternate URL nothing, the
\* second alternate URL some keys: they are the result and discovery is over
C3_SecondAlternateWins ==
  /\ script = "courtlistener" /\ pc = "check"
  /\ Len(queries) = 3
  /\ queries[1].got = SomeList(<<>>)
  /\ queries[3].ep = "alt2" /\ queries[3].got = SomeList(<<K_1, K_2>>)
  /\ bz2_files = SomeList(<<K_1, K_2>>)

\* C4: a caselaw run that started on an empty disk, discovered archives with
\* distinct destinations and reached its summary has counted every archive
\* once: downloaded and failed are the numbers of transfers that succeeded
\* and failed, skipped is 0, the three add up to the number of archives, and
\* an archive's file exists exactly when its transfer succeeded.
C4_CountersMatchOutcomes ==
  (script = "caselaw" /\ pc = "done" /\ fs0 = EmptyDisk /\ IsInjective(found)) =>
    /\ downloaded_count = Cardinality(okPaths)
    /\ failed_count = Cardinality(failPaths)
    /\ skipped_count = 0
    /\ downloaded_count + skipped_count + failed_count = Len(found)
    /\ okPaths \cap failPaths = {}
    /\ okPaths \cup failPaths = Range(found)
    /\ \A p \in Range(found) : p \in DOMAIN fs <=> p \in okPaths

\* two archives were discovered, the first was downloaded, the second failed
\* mid-stream
C4_OneDownloadedOneFailed ==
  /\ script = "caselaw" /\ pc = "done" /\ fs0 = EmptyDisk
  /\ Len(found) = 2 /\ found[1] # found[2]
  /\ okPaths = {found[1]} /\ failPaths = {found[2]}
  /\ lastFetch.outcome = "stream_error"
  /\ downloaded_count = 1 /\ failed_count = 1 /\ skipped_count = 0

\* C5: no failure of a transfer ends the process: an error while writing the
\* file is counted as a failed item and the loop goes on.
C5_NoFailurePropagates ==
  ~(pc = "crashed" /\ lastFetch.ret = "OSError")

\* C6: when a script is run again after a run that started on an empty disk,
\* the second run, once it has reached its summary, has issued a transfer
\* request for exactly the discovered items the first run did not download
\* completely.
C6_SecondRunFetchesIncomplete ==
  (run = 2 /\ pc = "done" /\ fs0 = EmptyDisk) =>
    requested = Range(found) \ complete1

\* the files on a disk
FilesOf(disk) == {p \in DOMAIN disk : disk[p].kind = "file"}

\* C7: in the courtlistener script download_file is called, and a file
\* written, only after discovery gave a non-empty list and the user answered
\* y or Y; when discovery gave nothing the process exits with status 1 without
\* a prompt or a download; any other answer ends it with status 0 without a
\* download.
C7_PromptGatesDownload ==
  script = "courtlistener" =>
    /\ (calls > 0 \/ pc = "download" \/ FilesOf(fs) # FilesOf(fs0)) =>
         /\ bz2_files.v # <<>>
         /\ answer \in {<<"y">>, <<"Y">>}
    /\ (~Discovering /\ (bz2_files.isNone \/ bz2_files.v = <<>>)) =>
         /\ pc \in {"check", "exited"}
         /\ pc = "exited" => exit_code = "1"
         /\ answer = NoLine /\ calls = 0 /\ requests = 0
    /\ answer \notin {NoLine, EOF, <<"y">>, <<"Y">>} =>
         /\ pc = "exited" /\ exit_code = "0"
         /\ calls = 0 /\ requests = 0 /\ FilesOf(fs) = FilesOf(fs0)

\* the user answered Y and a file was downloaded
C7_UpperCaseYesDownloads ==
  /\ script = "courtlistener" /\ answer = <<"Y">>
  /\ calls > 0 /\ okPaths # {}

\* the last segment of a URL that is not empty, by positions: it ends at the
\* last character that is not '/', and starts after the '/' before it
HasSegment(u) == \E k \in DOMAIN u : u[k] # "/"
FinalSegment(u) ==
  LET b == CHOOSE k \in DOMAIN u :
             u[k] # "/" /\ \A j \in DOMAIN u : j > k => u[j] = "/"
      a == CHOOSE k \in 1..b :
             /\ \A j \in k..b : u[j] # "/"
             /\ k > 1 => u[k - 1] = "/"
  IN SubSeq(u, a, b)

\* an anchor that is to yield a reporter
Qualifies(u) ==
  /\ u # <<>> /\ u[Len(u)] = "/"
  /\ u # base_url
  /\ HasSegment(u)
  /\ ~EndsWith(FinalSegment(u), JsonExt)

\* the listing request failed: it raised, or the status is an error status
RequestFailed(resp) == resp.exc \/ resp.status >= 400

\* C8: get_reporter_directories returns, in document order, one (name, url)
\* entry for each anchor whose URL ends with '/', is not the root URL and whose
\* final non-empty segment does not end in '.json', the name being that
\* segment; a failed listing request gives the empty sequence.
C8_ReportersAreTheDirectoryAnchors ==
  (script = "get_reporter_directories" /\ pc = "returned") =>
    IF RequestFailed(inp) THEN out = <<>>
    ELSE LET q == {k \in DOMAIN inp.links : Qualifies(inp.links[k])}
         IN /\ Len(out) = Cardinality(q)
            /\ \E f \in [DOMAIN out -> q] :
                 /\ \A a, b \in DOMAIN out : a < b => f[a] < f[b]
                 /\ \A k \in DOMAIN out :
                      out[k] = <<FinalSegment(inp.links[f[k]]), inp.links[f[k]]>>

\* a listing with a metadata directory, a reporter written with two slashes
\* and a file: only the reporter is returned
C8_OneReporterOfThree ==
  /\ script = "get_reporter_directories" /\ pc = "returned"
  /\ inp.links = <<U_metadir, U_aa, U_file>>
  /\ out = << <<(<<"a">>), U_aa>> >>

\* the <Key>...</Key> occurrences of a text: an opening tag at a, a closing tag
\* at b, and between them at least one character, none of them '<'
Occurrences(text) ==
  {o \in {a \in DOMAIN text : StartsAt(text, a, KeyOpen)}
          \X {b \in DOMAIN text : StartsAt(text, b, KeyClose)} :
     /\ o[2] > o[1] + Len(KeyOpen)
     /\ \A k \in (o[1] + Len(KeyOpen))..(o[2] - 1) : text[k] # "<"}
KeyAt(text, o) == SubSeq(text, o[1] + Len(KeyOpen), o[2] - 1)

RECURSIVE InDocumentOrder(_, _)
InDocumentOrder(text, occ) ==
  IF occ = {} THEN <<>>
  ELSE LET first == CHOOSE o \in occ : \A p \in occ : o[1] <= p[1]
       IN <<KeyAt(text, first)>> \o InDocumentOrder(text, occ \ {first})

\* C9: on a successful response get_s3_bucket_listing returns the keys of the
\* <Key>...</Key> occurrences that end in '.bz2', in document order, duplicates
\* kept; on a request error it returns None, which a successful listing
\* without any such key (the empty list) is not.
C9_ListingIsTheBz2Keys ==
  (script = "get_s3_bucket_listing" /\ pc = "returned") =>
    IF RequestFailed(inp) THEN out.isNone
    ELSE /\ ~out.isNone
         /\ out.v = InDocumentOrder(inp.text,
                      {o \in Occurrences(inp.text) :
                         EndsWith(KeyAt(inp.text, o), Bz2Ext)})

\* three keys, the second not a .bz2 key, the first and the third equal
C9_DuplicateKeysKept ==
  /\ script = "get_s3_bucket_listing" /\ pc = "returned"
  /\ inp.text = E_bz2 \o E_other \o E_bz2
  /\ out = SomeList(<< <<"a">> \o Bz2Ext, <<"a">> \o Bz2Ext >>)

\* C10: when a numeric limit L >= 0 is given, at most L reporters are
\* processed (none, and no transfer, for L = 0).
C10_LimitBoundsReporters ==
  (script = "caselaw" /\ pc \in {"reporters", "files", "done"}
     /\ ~limit_reporters.isNone /\ limit_reporters.v >= 0) =>
    /\ Len(reporters) <= limit_reporters.v
    /\ limit_reporters.v = 0 => requests = 0

====
